---- MODULE Spec2Model ----
(***************************************************************************)
(* uamp-js: envelope authentication (src/src/index.ts, section 2).         *)
(*                                                                         *)
(*   canonicalJson(obj)            JSON.stringify(obj, sorted top keys)    *)
(*   signEnvelope(env, key)        detached JWS over sha256(canonicalJson) *)
(*   verifyEnvelopeSignature(env, keys)   ordered loop over candidates     *)
(*                                                                         *)
(* A JavaScript value is a record [t, s, n, kids]: t is the type tag, s a  *)
(* string payload, n a numeric payload and kids the own properties of an   *)
(* object (or the elements of an array) IN INSERTION ORDER, each a record  *)
(* [k, v].  Byte sequences are TLA+ strings.                               *)
(***************************************************************************)
EXTENDS Integers, Sequences, FiniteSets, TLC

(* ------------------------------ bounds --------------------------------- *)
\* Number of key pairs in the world (key pair k = private key k / public key k).
NKeys == 2
\* Longest candidate key list handed to verifyEnvelopeSignature.
MaxKeys == 2
\* Number of concurrently running calls in SpecConc.
NCalls == 2

(* --------------------------- JavaScript values ------------------------- *)
Str(x) == [t |-> "str", s |-> x, n |-> 0, kids |-> <<>>]
Num(x) == [t |-> "num", s |-> "", n |-> x, kids |-> <<>>]
\* A non-finite number (NaN, Infinity, -Infinity).
NonFinite == [t |-> "nonfinite", s |-> "NaN", n |-> 0, kids |-> <<>>]
Undefined == [t |-> "undefined", s |-> "", n |-> 0, kids |-> <<>>]
Prop(key, val) == [k |-> key, v |-> val]
Obj(props) == [t |-> "obj", s |-> "", n |-> 0, kids |-> props]
Arr(items) == [t |-> "arr", s |-> "", n |-> 0,
               kids |-> [j \in DOMAIN items |-> Prop(ToString(j - 1), items[j])]]
\* A compact JWS string: protected header {alg}, payload {sha256}, and a
\* signature made with the key material of key pair n (0: no key pair of the
\* world made it).
Jws(alg, digest, kid) ==
    [t |-> "jws", s |-> "", n |-> kid,
     kids |-> <<Prop("alg", Str(alg)), Prop("sha256", Str(digest))>>]
JwsAlg(tok) == tok.kids[1].v.s
JwsSha(tok) == tok.kids[2].v.s

Range(seq) == {seq[j] : j \in DOMAIN seq}
Keys(o) == [j \in DOMAIN o.kids |-> o.kids[j].k]
Has(o, key) == \E j \in DOMAIN o.kids : o.kids[j].k = key
Get(o, key) ==
    IF Has(o, key)
    THEN o.kids[CHOOSE j \in DOMAIN o.kids : o.kids[j].k = key].v
    ELSE Undefined

RECURSIVE HasPath(_, _)
HasPath(v, path) ==
    IF path = <<>> THEN TRUE
    ELSE Has(v, Head(path)) /\ HasPath(Get(v, Head(path)), Tail(path))

RECURSIVE GetPath(_, _)
GetPath(v, path) ==
    IF path = <<>> THEN v ELSE GetPath(Get(v, Head(path)), Tail(path))

\* Assignment  v.p1.p2... = new  (property order is kept).
RECURSIVE SetPath(_, _, _)
SetPath(v, path, new) ==
    IF path = <<>> THEN new
    ELSE [v EXCEPT !.kids =
            [j \in DOMAIN v.kids |->
                IF v.kids[j].k = Head(path)
                THEN Prop(v.kids[j].k, SetPath(v.kids[j].v, Tail(path), new))
                ELSE v.kids[j]]]

(* ----------------------------- canonicalJson --------------------------- *)
\* Every property name of the model, in the order of Array.prototype.sort()
\* with no comparator (UTF-16 code unit order).
KeyOrder ==
    << "body", "content", "context", "delta_window", "ext", "from", "hash",
       "id", "intent", "sig", "to", "trace", "ts", "type" >>

\* Object.keys(obj) without the sort: insertion order.
UnsortedKeys(o) == Keys(o)

\* Object.keys(obj).sort()
SortedKeys(o) == SelectSeq(KeyOrder, LAMBDA key : key \in Range(Keys(o)))

Quote(x) == "\"" \o x \o "\""

RECURSIVE Join(_)
Join(parts) ==
    IF parts = <<>> THEN ""
    ELSE IF Len(parts) = 1 THEN parts[1]
    ELSE parts[1] \o "," \o Join(Tail(parts))

\* JSON.stringify(v, plist) with an ARRAY replacer: plist is the property
\* allow-list, applied to every object at every depth (SerializeJSONObject
\* walks plist, in plist's order, and skips names the object lacks); array
\* elements are all serialized (SerializeJSONArray), a non-finite number is
\* written as null.
RECURSIVE Stringify(_, _)
Stringify(v, plist) ==
    CASE v.t = "str" -> Quote(v.s)
      [] v.t = "num" -> ToString(v.n)
      [] v.t = "nonfinite" -> "null"
      [] v.t = "jws" -> Quote(JwsAlg(v) \o "." \o JwsSha(v) \o "." \o ToString(v.n))
      [] v.t = "arr" ->
            "[" \o Join([j \in DOMAIN v.kids |->
                           IF v.kids[j].v.t = "undefined" THEN "null"
                           ELSE Stringify(v.kids[j].v, plist)]) \o "]"
      [] v.t = "obj" ->
            LET present == SelectSeq(plist,
                              LAMBDA key : Has(v, key) /\ Get(v, key).t # "undefined")
            IN "{" \o Join([j \in DOMAIN present |->
                              Quote(present[j]) \o ":"
                                \o Stringify(Get(v, present[j]), plist)]) \o "}"
      [] OTHER -> "undefined"

canonicalJsonUnsorted(obj) == Stringify(obj, UnsortedKeys(obj))

canonicalJson(obj) == Stringify(obj, SortedKeys(obj))

\* createHash('sha256').update(bytes).digest('hex'): an ideal (collision-free)
\* hash, so two digests are equal exactly when the bytes are.
sha256hex(bytes) == "sha256(" \o bytes \o ")"

(* ------------------------------- jose ---------------------------------- *)
\* The set of protected-header algorithms a token can name.
AllAlgs == {"ES256", "EdDSA", "RS256", "HS256", "none"}

\* Allow-list with a symmetric algorithm let in.
AlgorithmsLax == {"ES256", "EdDSA", "RS256", "HS256"}

\* { algorithms: ['ES256', 'EdDSA', 'RS256'] }
Algorithms == {"ES256", "EdDSA", "RS256"}

\* new SignJWT({ sha256 }).setProtectedHeader({ alg }).sign(key)
SignJWT(digest, alg, key) == Jws(alg, digest, key)

\* The cryptographic check of a token under public key k, the header's
\* algorithm taken at its word: an unsecured token ("none") carries nothing
\* to check, any other validates under k exactly when key pair k's material
\* made it (for HS256 that is the public key used as the MAC secret).
SignatureValidates(tok, k) == JwsAlg(tok) = "none" \/ tok.n = k

\* jwtVerify(jws, k, { algorithms }): [ok, sha256]; ok = FALSE is a rejected
\* promise (not a string, algorithm not allowed, signature invalid).
jwtVerify(jws, k, algorithms) ==
    LET ok == /\ jws.t = "jws"
              /\ JwsAlg(jws) \in algorithms
              /\ SignatureValidates(jws, k)
    IN [ok |-> ok, sha256 |-> IF ok THEN JwsSha(jws) ELSE ""]

(* ------------------------- the two operations -------------------------- *)
ValidationFailed == "UAMP signature validation failed"

\* The frame of one call: arguments (env, key, keys), locals (sha256, sig,
\* expected, the loop position i), the settled promise (result, ret), and
\* three history fields: examined (the keys handed to jwtVerify so far),
\* nDigest (how many times the call hashed canonical bytes) and overlapped
\* (the call took a step while another call was suspended).
NoCall ==
    [op |-> "none", pc |-> "idle", env |-> Undefined, key |-> 0, keys |-> <<>>,
     sha256 |-> "", sig |-> Undefined, expected |-> "", i |-> 0,
     examined |-> <<>>, nDigest |-> 0, overlapped |-> FALSE,
     result |-> "pending", ret |-> Undefined]

\* const { sig, ...unsigned } = env
SigOf(e) == Get(e, "sig")
UnsignedKeepSig(e) == e
Unsigned(e) == [e EXCEPT !.kids = SelectSeq(@, LAMBDA p : p.k # "sig")]

\* signEnvelope up to the pending SignJWT(...).sign(key)
signStart(e, k) ==
    [NoCall EXCEPT !.op = "sign", !.pc = "await", !.env = e, !.key = k,
                   !.sha256 = sha256hex(canonicalJson(e)), !.nDigest = 1]

\* ... .sign(key) resolves with the token; signEnvelope returns it
signResolve(c) ==
    [c EXCEPT !.pc = "done", !.result = "ok",
              !.ret = SignJWT(c.sha256, "ES256", c.key)]

\* verifyEnvelopeSignature with a guard on a missing sig ahead of the loop.
verifyStartEager(e, ks) ==
    LET c == [NoCall EXCEPT !.op = "verify", !.env = e, !.keys = ks,
                            !.sig = SigOf(e),
                            !.expected = sha256hex(canonicalJson(Unsigned(e))),
                            !.nDigest = 1, !.i = 1]
    IN IF ks = <<>> \/ SigOf(e).t = "undefined"
       THEN [c EXCEPT !.pc = "done", !.result = ValidationFailed]
       ELSE [c EXCEPT !.pc = "await"]

\* verifyEnvelopeSignature up to the first pending jwtVerify; with no
\* candidate the loop body never runs and the throw follows at once.
verifyStart(e, ks) ==
    LET c == [NoCall EXCEPT !.op = "verify", !.env = e, !.keys = ks,
                            !.sig = SigOf(e),
                            !.expected = sha256hex(canonicalJson(Unsigned(e))),
                            !.nDigest = 1, !.i = 1]
    IN IF ks = <<>>
       THEN [c EXCEPT !.pc = "done", !.result = ValidationFailed]
       ELSE [c EXCEPT !.pc = "await"]

\* The loop giving up at the first candidate that fails.
verifyTryFirstOnly(c) ==
    LET k == c.keys[c.i]
        r == jwtVerify(c.sig, k, Algorithms)
        seen == [c EXCEPT !.examined = Append(@, k)]
    IN IF r.ok /\ r.sha256 = c.expected
       THEN [seen EXCEPT !.pc = "done", !.result = "ok"]
       ELSE [seen EXCEPT !.pc = "done", !.result = ValidationFailed]

\* The loop walking the candidates from the last to the first.
verifyTryBackwards(c) ==
    LET k == c.keys[Len(c.keys) + 1 - c.i]
        r == jwtVerify(c.sig, k, Algorithms)
        seen == [c EXCEPT !.examined = Append(@, k)]
    IN IF r.ok /\ r.sha256 = c.expected
       THEN [seen EXCEPT !.pc = "done", !.result = "ok"]
       ELSE IF c.i < Len(c.keys)
       THEN [seen EXCEPT !.i = @ + 1]
       ELSE [seen EXCEPT !.pc = "done", !.result = ValidationFailed]

\* One pending jwtVerify settles: return on a validated token carrying the
\* expected digest; otherwise go on to the next key, or throw after the last.
verifyTry(c) ==
    LET k == c.keys[c.i]
        r == jwtVerify(c.sig, k, Algorithms)
        seen == [c EXCEPT !.examined = Append(@, k)]
    IN IF r.ok /\ r.sha256 = c.expected
       THEN [seen EXCEPT !.pc = "done", !.result = "ok"]
       ELSE IF c.i < Len(c.keys)
       THEN [seen EXCEPT !.i = @ + 1]
       ELSE [seen EXCEPT !.pc = "done", !.result = ValidationFailed]

(* --------------------------- the envelopes ----------------------------- *)
\* buildBaseEnvelope(), with and without the optional fields.
Body == Prop("body", Obj(<<Prop("type", Str("text/plain")),
                           Prop("content", Str("ping"))>>))
Context == Prop("context",
                Arr(<<Obj(<<Prop("id", Str("urn:uuid:P")),
                            Prop("hash", Str("sha256:h1"))>>)>>))
Ext == Prop("ext", Obj(<<Prop("trace", Str("abc")), Prop("ts", Str("x"))>>))

Envelopes ==
    { Obj(<<Prop("id", Str("urn:uuid:A")), Prop("ts", Str("T")),
            Prop("from", Str("did:web:alice.example")),
            Prop("to", Arr(<<Str("did:web:bob.example")>>)),
            Prop("intent", Str("ask"))>> \o ctx \o dw \o <<Body>> \o ext) :
        ctx \in {<<>>, <<Context>>},
        dw \in {<<>>, <<Prop("delta_window", Num(64))>>,
                <<Prop("delta_window", NonFinite)>>},
        ext \in {<<>>, <<Ext>>} }

\* Post-signing assignments to one non-signature field (env.ts = ..., 
\* base.body.content = 'new', ...).
NoTamper == [path |-> <<>>, val |-> Undefined]
Tampers ==
    { [path |-> <<"ts">>, val |-> Str("T2")],
      [path |-> <<"id">>, val |-> Str("urn:uuid:new")],
      [path |-> <<"to", "0">>, val |-> Str("did:web:eve.example")],
      [path |-> <<"delta_window">>, val |-> Num(65)],
      [path |-> <<"body", "content">>, val |-> Str("pong")],
      [path |-> <<"body", "type">>, val |-> Str("text/html")],
      [path |-> <<"context", "0", "hash">>, val |-> Str("sha256:h2")],
      [path |-> <<"context", "0", "id">>, val |-> Str("urn:uuid:Q")],
      [path |-> <<"ext", "trace">>, val |-> Str("xyz")],
      [path |-> <<"ext", "ts">>, val |-> Str("y")] }

\* The same values with the properties inserted in the opposite order.
Reverse(seq) == [j \in DOMAIN seq |-> seq[Len(seq) + 1 - j]]

RECURSIVE ReverseObjects(_)
ReverseObjects(v) ==
    LET inner == [j \in DOMAIN v.kids |->
                    Prop(v.kids[j].k, ReverseObjects(v.kids[j].v))]
    IN CASE v.t = "obj" -> [v EXCEPT !.kids = Reverse(inner)]
         [] v.t = "arr" -> [v EXCEPT !.kids = inner]
         [] OTHER -> v

ReverseTop(e) == [e EXCEPT !.kids = Reverse(@)]
ReverseNested(e) ==
    [e EXCEPT !.kids = [j \in DOMAIN @ |-> Prop(@[j].k, ReverseObjects(@[j].v))]]

\* { ...envNoSig, sig }  /  replacing the sig of a signed envelope
WithSig(e, tok) ==
    IF Has(e, "sig") THEN SetPath(e, <<"sig">>, tok)
    ELSE [e EXCEPT !.kids = Append(@, Prop("sig", tok))]

KeyIds == 1 .. NKeys
\* The candidate lists: every list of at most n distinct keys of S, in
\* every order.
RECURSIVE SeqsUpTo(_, _)
SeqsUpTo(S, n) ==
    IF n = 0 THEN {<<>>}
    ELSE LET shorter == SeqsUpTo(S, n - 1)
         IN shorter \cup
              UNION {{Append(q, x) : x \in S \ Range(q)} : q \in shorter}
KeyLists == SeqsUpTo(KeyIds, MaxKeys)

(* ------------------------------- state --------------------------------- *)
VARIABLES
    env,      \* the envelope object the caller holds
    stage,    \* "built" | "signing" | "token" | "signed" | "verifying" | "done"
    call,     \* the frame of the call in progress (or the last one)
    orig,     \* history: the unsigned envelope as first built / as signed
    signer,   \* history: the key that signed env (0: none)
    tamper,   \* history: the post-signing assignment made (NoTamper: none)
    forged,   \* history: sig was replaced by a token signEnvelope did not return
    calls     \* SpecConc: the frames of the concurrent calls

vars == <<env, stage, call, orig, signer, tamper, forged, calls>>

\* A token a peer can put in place of sig: any header algorithm, the digest
\* of the envelope as it stands or of other content, made with the signer's
\* key material (a token lifted from other traffic, or the public key used
\* as a MAC secret) or with none of the world's key pairs.
Tokens(e) ==
    { Jws(alg, d, k) : alg \in AllAlgs,
                       d \in {sha256hex(canonicalJson(Unsigned(e))), sha256hex("{}")},
                       k \in {0, signer} }

\* The envelope is as signEnvelope's caller assembled it.
Pristine == orig \in Envelopes /\ env = WithSig(orig, SigOf(env))

Init ==
    /\ env \in Envelopes
    /\ stage = "built"
    /\ call = NoCall
    /\ orig = env
    /\ signer = 0
    /\ tamper = NoTamper
    /\ forged = FALSE
    /\ calls = [c \in 1 .. NCalls |-> NoCall]

\* The caller rebuilds the object with another insertion order.
Reorder ==
    /\ stage \in {"built", "signed"}
    /\ tamper = NoTamper
    /\ ~forged
    /\ \/ env' = ReverseTop(env)
       \/ env' = ReverseNested(env)
    /\ UNCHANGED <<stage, call, orig, signer, tamper, forged, calls>>

\* const sig = await signEnvelope(envNoSig, key)   -- the call is made
Sign ==
    /\ stage = "built"
    /\ ~Has(env, "sig")
    /\ \E k \in KeyIds : call' = signStart(env, k)
    /\ stage' = "signing"
    /\ UNCHANGED <<env, orig, signer, tamper, forged, calls>>

\* ... and it resolves
SignResolve ==
    /\ stage = "signing"
    /\ call' = signResolve(call)
    /\ stage' = "token"
    /\ UNCHANGED <<env, orig, signer, tamper, forged, calls>>

\* const env = { ...envNoSig, sig }
Attach ==
    /\ stage = "token"
    /\ env' = WithSig(env, call.ret)
    /\ orig' = env
    /\ signer' = call.key
    /\ stage' = "signed"
    /\ UNCHANGED <<call, tamper, forged, calls>>

\* env.ts = ... after signing
Tamper ==
    /\ stage = "signed"
    /\ Pristine
    /\ tamper = NoTamper
    /\ ~forged
    /\ \E m \in Tampers :
          /\ HasPath(env, m.path)
          /\ GetPath(env, m.path) # m.val
          /\ env' = SetPath(env, m.path, m.val)
          /\ tamper' = m
    /\ UNCHANGED <<stage, call, orig, signer, forged, calls>>

\* A peer sends the envelope with a sig of its own making.
Forge ==
    /\ stage = "signed"
    /\ Pristine
    /\ tamper = NoTamper
    /\ ~forged
    /\ \E tok \in Tokens(env) :
          /\ tok # SigOf(env)
          /\ env' = WithSig(env, tok)
    /\ forged' = TRUE
    /\ UNCHANGED <<stage, call, orig, signer, tamper, calls>>

\* await verifyEnvelopeSignature(env, keys)   -- the call is made
Verify ==
    /\ stage \in {"built", "signed"}
    /\ \E ks \in KeyLists : call' = verifyStart(env, ks)
    /\ stage' = IF call'.pc = "done" THEN "done" ELSE "verifying"
    /\ UNCHANGED <<env, orig, signer, tamper, forged, calls>>

\* ... one jwtVerify settles
VerifyTry ==
    /\ stage = "verifying"
    /\ call.pc = "await"
    /\ call' = verifyTry(call)
    /\ stage' = IF call'.pc = "done" THEN "done" ELSE "verifying"
    /\ UNCHANGED <<env, orig, signer, tamper, forged, calls>>

Next ==
    \/ Reorder
    \/ Sign
    \/ SignResolve
    \/ Attach
    \/ Tamper
    \/ Forge
    \/ Verify
    \/ VerifyTry

Spec == Init /\ [][Next]_vars

(* ------------------------- concurrent calls ---------------------------- *)
\* Two different envelopes, and each with a sig attached: EnvA with the token
\* signEnvelope returns for it under key 1, EnvB with that same token (which
\* binds EnvA's digest, not EnvB's).
EnvA ==
    Obj(<<Prop("id", Str("urn:uuid:A")), Prop("ts", Str("T")),
          Prop("from", Str("did:web:alice.example")),
          Prop("to", Arr(<<Str("did:web:bob.example")>>)),
          Prop("intent", Str("ask")), Body>>)
EnvB == SetPath(EnvA, <<"id">>, Str("urn:uuid:new"))
TokenA == signResolve(signStart(EnvA, 1)).ret

\* The calls a client can make, before they start: the arguments only.
CallInputs ==
    { [NoCall EXCEPT !.op = "sign", !.env = e, !.key = k] :
        e \in {EnvA, EnvB}, k \in {1, NKeys} }
    \cup
    { [NoCall EXCEPT !.op = "verify", !.env = WithSig(e, TokenA), !.keys = ks] :
        e \in {EnvA, EnvB}, ks \in {<<1>>, <<NKeys, 1>>, <<NKeys>>} }

CallIds == 1 .. NCalls

\* Some call other than c is suspended at an await.
OthersSuspended(c) == \E d \in CallIds \ {c} : calls[d].pc = "await"

Stepped(c, frame) ==
    /\ calls' = [calls EXCEPT
                   ![c] = [frame EXCEPT !.overlapped = calls[c].overlapped
                                                          \/ OthersSuspended(c)]]
    /\ UNCHANGED <<env, stage, call, orig, signer, tamper, forged>>

InitConc ==
    /\ calls \in [CallIds -> CallInputs]
    /\ env = EnvA
    /\ stage = "concurrent"
    /\ call = NoCall
    /\ orig = EnvA
    /\ signer = 0
    /\ tamper = NoTamper
    /\ forged = FALSE

\* Call c is made: it runs up to its first await.
CStart(c) ==
    /\ calls[c].pc = "idle"
    /\ Stepped(c, IF calls[c].op = "sign"
                  THEN signStart(calls[c].env, calls[c].key)
                  ELSE verifyStart(calls[c].env, calls[c].keys))

\* The pending sign() of call c resolves.
CSignResolve(c) ==
    /\ calls[c].op = "sign"
    /\ calls[c].pc = "await"
    /\ Stepped(c, signResolve(calls[c]))

\* The loop of call c reading `expected` from a slot every call writes: the
\* lowest-numbered verification that has started owns it.
CVerifyTryShared(c) ==
    /\ calls[c].op = "verify"
    /\ calls[c].pc = "await"
    /\ LET started == {d \in CallIds : calls[d].op = "verify" /\ calls[d].pc # "idle"}
           owner == CHOOSE d \in started : \A x \in started : d <= x
       IN Stepped(c, verifyTry([calls[c] EXCEPT !.expected = calls[owner].expected]))

\* The pending jwtVerify of call c settles.
CVerifyTry(c) ==
    /\ calls[c].op = "verify"
    /\ calls[c].pc = "await"
    /\ Stepped(c, verifyTry(calls[c]))

NextConc ==
    \E c \in CallIds :
        \/ CStart(c)
        \/ CSignResolve(c)
        \/ CVerifyTry(c)

SpecConc == InitConc /\ [][NextConc]_vars

\* The same call run to completion with nothing else running.
RECURSIVE RunVerify(_)
RunVerify(c) == IF c.pc = "done" THEN c ELSE RunVerify(verifyTry(c))

RunAlone(c) ==
    IF c.op = "sign"
    THEN signResolve(signStart(c.env, c.key))
    ELSE RunVerify(verifyStart(c.env, c.keys))

(* ------------------------------ claims --------------------------------- *)
VerifyDone == call.op = "verify" /\ call.pc = "done"

\* env carries the sig signEnvelope returned for it, and nothing was assigned
\* to it since.
Genuine == signer # 0 /\ ~forged /\ tamper = NoTamper /\ Has(call.env, "sig")

\* Candidate k passes both checks of the loop body for frame c.
Pass(c, k) ==
    LET r == jwtVerify(c.sig, k, Algorithms)
    IN r.ok /\ r.sha256 = c.expected

RECURSIVE HasNonFinite(_)
HasNonFinite(v) ==
    \/ v.t = "nonfinite"
    \/ \E j \in DOMAIN v.kids : HasNonFinite(v.kids[j].v)

\* C1 (as claimed): after any post-signing change to the value of a
\* non-signature field, verification against [K.public] fails with the
\* no-matching-key error; it never passes.
C1_TamperDetected ==
    (VerifyDone /\ signer # 0 /\ tamper # NoTamper /\ call.keys = <<signer>>)
        => call.result = ValidationFailed

\* C2: an envelope carrying the sig that signEnvelope(E, K.private) returned
\* verifies against the candidate list [K.public].
C2_RoundTrip ==
    (VerifyDone /\ Genuine /\ call.keys = <<signer>>) => call.result = "ok"

C2_Witness ==
    /\ VerifyDone /\ Genuine /\ call.keys = <<signer>>
    /\ Has(call.env, "ext") /\ Has(call.env, "context")
    /\ Has(call.env, "delta_window")
    /\ call.result = "ok"

\* C3 (as claimed): two unsigned envelopes that differ in the value of one
\* field, nested ones included, have different canonical bytes.
C3_Sensitive ==
    tamper # NoTamper => canonicalJson(Unsigned(env)) # canonicalJson(orig)

\* C4: an envelope signed with K1 verifies exactly when K1's public key is
\* in the candidate list, wherever it stands in the list: [K2] fails,
\* [K2, K1] and [K1, K2] succeed.
C4_KeyDiscrimination ==
    (VerifyDone /\ Genuine) =>
        (call.result = "ok" <=> signer \in Range(call.keys))

C4_Witness ==
    /\ VerifyDone /\ Genuine
    /\ Len(call.keys) = 2 /\ call.keys[1] # signer /\ call.keys[2] = signer
    /\ call.result = "ok"

\* C5: the canonical bytes of the unsigned envelope a caller holds do not
\* depend on the insertion order of its top-level properties nor of the
\* properties of its nested objects (body, context items, ext), and the
\* digest a call computed is the digest of its envelope with the properties
\* inserted in the opposite order at every level.
C5_OrderIndependent ==
    LET u == Unsigned(env)
        a == Unsigned(call.env)
    IN /\ stage \in {"built", "signed"} =>
             /\ canonicalJson(ReverseTop(u)) = canonicalJson(u)
             /\ canonicalJson(ReverseNested(u)) = canonicalJson(u)
             /\ canonicalJson(ReverseTop(ReverseNested(u))) = canonicalJson(u)
       /\ call.op = "sign" =>
             call.sha256 = sha256hex(canonicalJson(ReverseTop(ReverseNested(a))))
       /\ call.op = "verify" =>
             call.expected = sha256hex(canonicalJson(ReverseTop(ReverseNested(a))))

C5_Witness ==
    /\ call.op = "sign" /\ call.pc = "done"
    /\ Has(call.env, "ext") /\ Has(call.env, "context")
    /\ call.env \notin Envelopes
    /\ ReverseTop(ReverseNested(call.env)) \in Envelopes

C7_EncodingError ==
    (call.op \in {"sign", "verify"} /\ HasNonFinite(Unsigned(call.env))) =>
        /\ call.nDigest = 0
        /\ call.pc = "done" /\ call.result = "EncodingError"

\* C8: verification never succeeds on a token whose protected header names
\* an algorithm outside {ES256, EdDSA, RS256}, whatever the candidates and
\* the digest it carries; and the token signEnvelope returns names ES256.
C8_AllowList ==
    /\ (VerifyDone /\ call.sig.t = "jws"
          /\ JwsAlg(call.sig) \notin {"ES256", "EdDSA", "RS256"})
         => call.result = ValidationFailed
    /\ (call.op = "sign" /\ call.pc = "done")
         => (JwsAlg(call.ret) = "ES256"
               /\ JwsAlg(call.ret) \in {"ES256", "EdDSA", "RS256"})

C8_Witness ==
    /\ VerifyDone /\ call.sig.t = "jws"
    /\ JwsAlg(call.sig) = "HS256"
    /\ JwsSha(call.sig) = call.expected
    /\ call.sig.n \in Range(call.keys)
    /\ call.result = ValidationFailed

\* C9: within one verification the expected digest is computed once, before
\* the loop; the candidates are examined in the order supplied; a candidate
\* failing either check is followed by the next; the call returns at the
\* first candidate passing both, leaving the later ones unexamined, and
\* fails only when every candidate was examined.
C9_OrderedStopOnFirst ==
    call.op = "verify" =>
        LET n == Len(call.examined)
        IN /\ call.nDigest = 1
           /\ call.expected = sha256hex(canonicalJson(Unsigned(call.env)))
           /\ n <= Len(call.keys)
           /\ call.examined = SubSeq(call.keys, 1, n)
           /\ \A j \in 1 .. n - 1 : ~Pass(call, call.examined[j])
           /\ call.pc = "await" =>
                 /\ n = call.i - 1
                 /\ \A j \in 1 .. n : ~Pass(call, call.examined[j])
           /\ (call.pc = "done" /\ call.result = "ok") =>
                 (n >= 1 /\ Pass(call, call.examined[n]))
           /\ (call.pc = "done" /\ call.result # "ok") =>
                 /\ call.result = ValidationFailed
                 /\ call.examined = call.keys
                 /\ \A j \in 1 .. n : ~Pass(call, call.examined[j])

C9_Witness ==
    /\ VerifyDone /\ call.result = "ok"
    /\ Len(call.keys) = 2 /\ call.keys[1] # call.keys[2]
    /\ call.examined = <<call.keys[1]>>

\* C10: however concurrent calls are interleaved at their awaits, a finished
\* call holds exactly what it holds when run alone (result, returned token,
\* keys examined), and no step of any call changes the envelope, key or key
\* list a call was given.
C10_CallsIndependent ==
    /\ [](\A c \in CallIds :
            calls[c].pc = "done" =>
                [calls[c] EXCEPT !.overlapped = FALSE] = RunAlone(calls[c]))
    /\ [][\A c \in CallIds :
            /\ calls'[c].op = calls[c].op
            /\ calls'[c].env = calls[c].env
            /\ calls'[c].key = calls[c].key
            /\ calls'[c].keys = calls[c].keys]_vars

C10_Witness ==
    \E c, d \in CallIds :
        /\ c # d
        /\ calls[c].op = "verify" /\ calls[c].pc = "done"
        /\ calls[c].overlapped /\ calls[c].result = "ok"
        /\ Len(calls[c].examined) = 2
        /\ calls[d].op = "verify" /\ calls[d].pc = "done"
        /\ calls[d].overlapped /\ calls[d].result = ValidationFailed
        /\ calls[d].env # calls[c].env

====
